---- MODULE Spec2Model ----
(***************************************************************************)
(* Model of the terminal file browser src/fk-files.py (class FkFiles and   *)
(* main).  One action per call of FkFiles.handle_input; the methods of     *)
(* FkFiles are operators from an application snapshot to the snapshot      *)
(* after the call.                                                         *)
(*                                                                         *)
(* Text is modelled as sequences of character codes (ASCII):              *)
(*   32 ' '   46 '.'   47 '/'   58 ':'   63 '?'   66 'B'   71 'G'          *)
(*   76 'L'   97 'a' .. 122 'z'                                            *)
(* A name is a sequence of codes, a path is a sequence of names (its       *)
(* components below the filesystem root), the root is the empty path.      *)
(***************************************************************************)
EXTENDS Integers, Sequences, FiniteSets, TLC

VARIABLES
    fs,               \* the filesystem: path -> node
    current_path,     \* FkFiles.current_path
    files,            \* FkFiles.files
    selected_idx,     \* FkFiles.selected_idx
    top_idx,          \* FkFiles.top_idx
    command_mode,     \* FkFiles.command_mode
    command,          \* FkFiles.command
    message,          \* FkFiles.message (text of the last show_message)
    color,            \* FkFiles.color ("error" = color_pair(4), "info" = color_pair(5))
    show_hidden,      \* FkFiles.show_hidden
    clipboard,        \* FkFiles.clipboard
    clipboard_is_cut, \* FkFiles.clipboard_is_cut
    lines,            \* terminal height (stdscr.getmaxyx()[0], curses.LINES)
    pending,          \* where handle_input / a method blocks in a nested getch
    run,              \* "running", "exit0" (loop left by break), "exit1" (exit(1))
    last,             \* the event handled last and the calls it made (history)
    edits,            \* how many events changed the filesystem, up to MaxEdits (history)
    pastes            \* how many clipboard entries paste_files has processed (history)

vars == <<fs, current_path, files, selected_idx, top_idx, command_mode, command,
          message, color, show_hidden, clipboard, clipboard_is_cut, lines,
          pending, run, last, edits, pastes>>

----------------------------------------------------------------------------
(* Text *)

DotDot == <<46, 46>>
Root == <<>>

\* str.lower() on one character
Lower(c) == IF c \in 65..90 THEN c + 32 ELSE c

\* str.lower()
LowerStr(s) == [i \in 1..Len(s) |-> Lower(s[i])]

\* Python's < on two strings: lexicographic by code point
RECURSIVE SeqLess(_, _)
SeqLess(a, b) ==
    IF a = <<>> THEN b # <<>>
    ELSE IF b = <<>> THEN FALSE
    ELSE IF a[1] # b[1] THEN a[1] < b[1]
    ELSE SeqLess(Tail(a), Tail(b))

\* str.startswith
StartsWith(s, p) == Len(s) >= Len(p) /\ SubSeq(s, 1, Len(p)) = p

\* `p in s` on strings
Contains(s, p) ==
    \E i \in 0..(Len(s) - Len(p)) : SubSeq(s, i + 1, i + Len(p)) = p

\* the non-empty tokens of s between separators: str.split() with seps = {32},
\* the components of a path string with seps = {47}
RECURSIVE TokensFrom(_, _, _)
TokensFrom(s, seps, cur) ==
    IF s = <<>> THEN (IF cur = <<>> THEN <<>> ELSE <<cur>>)
    ELSE IF s[1] \in seps
         THEN (IF cur = <<>> THEN <<>> ELSE <<cur>>) \o TokensFrom(Tail(s), seps, <<>>)
         ELSE TokensFrom(Tail(s), seps, Append(cur, s[1]))

Tokens(s, seps) == TokensFrom(s, seps, <<>>)

\* a faulty join that keeps the first token only
JoinFirst(args) == IF args = <<>> THEN <<>> ELSE args[1]

\* ' '.join(args)
RECURSIVE JoinSpace(_)
JoinSpace(args) ==
    IF args = <<>> THEN <<>>
    ELSE IF Len(args) = 1 THEN args[1]
    ELSE args[1] \o <<32>> \o JoinSpace(Tail(args))

----------------------------------------------------------------------------
(* Paths *)

\* os.path.normpath on the components of an absolute path
RECURSIVE NormFrom(_, _)
NormFrom(acc, p) ==
    IF p = <<>> THEN acc
    ELSE IF p[1] = DotDot
         THEN NormFrom(IF acc = <<>> THEN <<>> ELSE SubSeq(acc, 1, Len(acc) - 1), Tail(p))
         ELSE IF p[1] = <<46>> \/ p[1] = <<>>
              THEN NormFrom(acc, Tail(p))
              ELSE NormFrom(Append(acc, p[1]), Tail(p))

Norm(p) == NormFrom(<<>>, p)

\* os.path.join(base, s) for a path string s: an absolute s replaces base
JoinStr(base, s) ==
    IF s # <<>> /\ s[1] = 47 THEN Tokens(s, {47}) ELSE base \o Tokens(s, {47})

\* os.path.basename of a path held as components
Basename(p) == IF p = <<>> THEN <<>> ELSE p[Len(p)]

Parent(p) == SubSeq(p, 1, Len(p) - 1)

IsPrefix(p, q) == Len(p) <= Len(q) /\ SubSeq(q, 1, Len(p)) = p

----------------------------------------------------------------------------
(* The filesystem the program runs on.  A node is a directory, a regular    *)
(* file or a dangling symbolic link; r and w are the caller's read and      *)
(* write permission on a directory (listing needs r; creating, removing or  *)
(* renaming an entry needs w on the directory that holds it); data          *)
(* identifies a file's content.  No symbolic link leads to a directory, so  *)
(* resolving a path is normalising it.                                      *)

Dir(r, w) == [kind |-> "dir", r |-> r, w |-> w, data |-> 0]
File(data) == [kind |-> "file", r |-> TRUE, w |-> TRUE, data |-> data]

Exists(f, p) == p \in DOMAIN f
IsDirNode(f, p) == Exists(f, p) /\ f[p].kind = "dir"
Children(f, p) == {q \in DOMAIN f : Len(q) = Len(p) + 1 /\ IsPrefix(p, q)}
Subtree(f, p) == {q \in DOMAIN f : IsPrefix(p, q)}

\* os.path.isdir / os.path.isfile
OsIsDir(f, p) == IsDirNode(f, Norm(p))
OsIsFile(f, p) == Exists(f, Norm(p)) /\ f[Norm(p)].kind = "file"

\* the names of a set, ascending by code point
RECURSIVE AscSeq(_)
AscSeq(S) ==
    IF S = {} THEN <<>>
    ELSE LET m == CHOOSE x \in S : \A y \in S : x = y \/ SeqLess(x, y)
         IN <<m>> \o AscSeq(S \ {m})

Reverse(s) == [i \in 1..Len(s) |-> s[Len(s) + 1 - i]]

\* os.listdir(p): the entry names in an order the filesystem chooses.  The
\* order is arbitrary; rev draws it from two: ascending or descending by
\* code point.
OsListdir(f, p, rev) ==
    LET q == Norm(p) IN
    IF ~Exists(f, q) THEN [err |-> "ENOENT", names |-> <<>>]
    ELSE IF f[q].kind # "dir" THEN [err |-> "ENOTDIR", names |-> <<>>]
    ELSE IF ~f[q].r THEN [err |-> "EACCES", names |-> <<>>]
    ELSE LET asc == AscSeq({Basename(c) : c \in Children(f, q)})
         IN [err |-> "", names |-> IF rev THEN Reverse(asc) ELSE asc]

Without(f, gone) == [q \in DOMAIN f \ gone |-> f[q]]

\* os.unlink(p)
OsUnlink(f, p) ==
    LET q == Norm(p) IN
    IF ~Exists(f, q) THEN [err |-> "ENOENT", fs |-> f]
    ELSE IF f[q].kind = "dir" THEN [err |-> "EISDIR", fs |-> f]
    ELSE IF ~f[Parent(q)].w THEN [err |-> "EACCES", fs |-> f]
    ELSE [err |-> "", fs |-> Without(f, {q})]

\* os.rmdir(p)
OsRmdir(f, p) ==
    LET q == Norm(p) IN
    IF ~Exists(f, q) THEN [err |-> "ENOENT", fs |-> f]
    ELSE IF f[q].kind # "dir" THEN [err |-> "ENOTDIR", fs |-> f]
    ELSE IF q = Root THEN [err |-> "EBUSY", fs |-> f]
    ELSE IF Children(f, q) # {} THEN [err |-> "ENOTEMPTY", fs |-> f]
    ELSE IF ~f[Parent(q)].w THEN [err |-> "EACCES", fs |-> f]
    ELSE [err |-> "", fs |-> Without(f, {q})]

\* the subtree at s moved (keep = FALSE) or copied (keep = TRUE) to d
Graft(f, s, d, keep) ==
    LET moved == Subtree(f, s)
        image == {d \o SubSeq(q, Len(s) + 1, Len(q)) : q \in moved}
        rest == IF keep THEN DOMAIN f ELSE DOMAIN f \ moved
    IN [q \in rest \cup image |->
            IF q \in image THEN f[s \o SubSeq(q, Len(d) + 1, Len(q))] ELSE f[q]]

\* os.rename(src, dst)
OsRename(f, src, dst) ==
    LET s == Norm(src)
        d == Norm(dst)
    IN
    IF Basename(src) = DotDot \/ Basename(dst) = DotDot \/ s = Root \/ d = Root
    THEN [err |-> "EBUSY", fs |-> f]
    ELSE IF ~Exists(f, s) \/ ~Exists(f, Parent(d)) THEN [err |-> "ENOENT", fs |-> f]
    ELSE IF f[Parent(d)].kind # "dir" THEN [err |-> "ENOTDIR", fs |-> f]
    ELSE IF s = d THEN [err |-> "", fs |-> f]
    ELSE IF ~f[Parent(s)].w \/ ~f[Parent(d)].w THEN [err |-> "EACCES", fs |-> f]
    ELSE IF f[s].kind = "dir" /\ IsPrefix(s, d) THEN [err |-> "EINVAL", fs |-> f]
    ELSE IF Exists(f, d) /\ f[s].kind = "dir" /\ f[d].kind # "dir"
    THEN [err |-> "ENOTDIR", fs |-> f]
    ELSE IF Exists(f, d) /\ f[s].kind # "dir" /\ f[d].kind = "dir"
    THEN [err |-> "EISDIR", fs |-> f]
    ELSE IF Exists(f, d) /\ f[d].kind = "dir" /\ Children(f, d) # {}
    THEN [err |-> "ENOTEMPTY", fs |-> f]
    ELSE [err |-> "", fs |-> Graft(Without(f, {d}), s, d, FALSE)]

\* os.makedirs(p): creates p and every missing directory above it
OsMakedirs(f, p) ==
    LET q == Norm(p)
        above == {SubSeq(q, 1, k) : k \in 0..Len(q)}
        missing == above \ DOMAIN f
        have == above \cap DOMAIN f
        deepest == CHOOSE a \in have : \A b \in have : Len(b) <= Len(a)
    IN
    IF Exists(f, q) THEN [err |-> "EEXIST", fs |-> f]
    ELSE IF f[deepest].kind # "dir" THEN [err |-> "ENOTDIR", fs |-> f]
    ELSE IF ~f[deepest].w THEN [err |-> "EACCES", fs |-> f]
    ELSE [err |-> "", fs |-> [a \in DOMAIN f \cup missing |->
                                IF a \in missing THEN Dir(TRUE, TRUE) ELSE f[a]]]

\* subprocess.run(["cp", "-r"?, src, dst], check=True): an existing directory
\* dst receives the copy under the source's base name.  A cp that fails
\* raises CalledProcessError ("ECP"); what a failing cp has written by then
\* (GNU cp leaves a partial copy when a directory is copied into itself) is
\* not modelled.
OsCp(f, src, dst, recursive) ==
    LET s == Norm(src)
        d0 == Norm(dst)
        d == IF IsDirNode(f, d0) THEN Append(d0, Basename(src)) ELSE d0
    IN
    IF Basename(src) = DotDot \/ ~Exists(f, s) \/ d = Root \/ ~IsDirNode(f, Parent(d))
    THEN [err |-> "ECP", fs |-> f]
    ELSE IF f[s].kind = "dir" /\ ~recursive THEN [err |-> "ECP", fs |-> f]
    ELSE IF IsPrefix(s, d) THEN [err |-> "ECP", fs |-> f]
    ELSE IF Exists(f, d) /\ f[d].kind # f[s].kind THEN [err |-> "ECP", fs |-> f]
    ELSE IF ~Exists(f, d) /\ ~f[Parent(d)].w THEN [err |-> "ECP", fs |-> f]
    ELSE IF \E q \in Subtree(f, s) : f[q].kind = "dir" /\ ~f[q].r
    THEN [err |-> "ECP", fs |-> f]
    ELSE [err |-> "", fs |-> Graft(f, s, d, TRUE)]

----------------------------------------------------------------------------
(* FkFiles.  A snapshot S holds the object's fields, the filesystem, the    *)
(* exception in flight (exc) and, as history, the methods and branches      *)
(* entered while handling the current event (calls) and the operating       *)
(* system calls that failed in it (fails).  E holds what the environment decides during the   *)
(* call: rev, the order os.listdir answers in, and opens, whether the       *)
(* external opener succeeds.                                                *)

Msg(text, arg, n) == [text |-> text, arg |-> arg, n |-> n]

Call(S, name) == [S EXCEPT !.calls = Append(@, name)]
Failed(S, what) == [S EXCEPT !.fails = Append(@, what)]
Raise(S, e) == [S EXCEPT !.exc = e]

\* self.files[i] with Python's indexing: a negative i counts from the end
PyIndexOk(s, i) == -Len(s) <= i /\ i < Len(s)
PyAt(s, i) == IF i >= 0 THEN s[i + 1] ELSE s[Len(s) + i + 1]

\* the sort key of refresh_files: (not is_dir, name.lower())
KeyLess(x, y) ==
    IF x.is_dir # y.is_dir THEN x.is_dir
    ELSE SeqLess(LowerStr(x.name), LowerStr(y.name))

\* sorted(): stable, an element goes after the elements it is not less than
RECURSIVE InsertSorted(_, _)
InsertSorted(x, s) ==
    IF s = <<>> THEN <<x>>
    ELSE IF KeyLess(x, s[1]) THEN <<x>> \o s
    ELSE <<s[1]>> \o InsertSorted(x, Tail(s))

RECURSIVE Sorted(_)
Sorted(s) ==
    IF s = <<>> THEN <<>>
    ELSE InsertSorted(s[Len(s)], Sorted(SubSeq(s, 1, Len(s) - 1)))

\* FkFiles.show_message
show_message(S, msg, is_error) ==
    [S EXCEPT !.message = msg, !.color = IF is_error THEN "error" ELSE "info"]

\* os.stat(full_path) raises OSError on a dangling symbolic link
StatFails(f, p) == f[Norm(p)].kind = "dangling"

\* a faulty refresh_files that lists hidden names whatever show_hidden says
refresh_files_all(S0, E) ==
    LET S == Call(S0, "refresh_files")
        parent == IF S.current_path # Root
                  THEN <<[name |-> DotDot, is_dir |-> TRUE,
                          full_path |-> Append(S.current_path, DotDot)]>>
                  ELSE <<>>
        ls == OsListdir(S.fs, S.current_path, E.rev)
        kept == SelectSeq(ls.names,
                    LAMBDA n : ~StatFails(S.fs, Append(S.current_path, n)))
        listed == [i \in 1..Len(kept) |->
                     [name |-> kept[i],
                      is_dir |-> OsIsDir(S.fs, Append(S.current_path, kept[i])),
                      full_path |-> Append(S.current_path, kept[i])]]
        all == parent \o listed
    IN
    IF ls.err # ""
    THEN show_message(Failed([S EXCEPT !.files = parent], "refresh_files:listdir"),
                      Msg("Error: " \o ls.err, <<>>, 0), TRUE)
    ELSE [S EXCEPT !.files = IF all = <<>> THEN <<>>
                             ELSE <<all[1]>> \o Sorted(Tail(all))]

\* FkFiles.refresh_files
refresh_files(S0, E) ==
    LET S == Call(S0, "refresh_files")
        parent == IF S.current_path # Root
                  THEN <<[name |-> DotDot, is_dir |-> TRUE,
                          full_path |-> Append(S.current_path, DotDot)]>>
                  ELSE <<>>
        ls == OsListdir(S.fs, S.current_path, E.rev)
        kept == SelectSeq(ls.names,
                    LAMBDA n : /\ (S.show_hidden \/ ~StartsWith(n, <<46>>))
                               /\ ~StatFails(S.fs, Append(S.current_path, n)))
        listed == [i \in 1..Len(kept) |->
                     [name |-> kept[i],
                      is_dir |-> OsIsDir(S.fs, Append(S.current_path, kept[i])),
                      full_path |-> Append(S.current_path, kept[i])]]
        all == parent \o listed
    IN
    IF ls.err # ""
    THEN show_message(Failed([S EXCEPT !.files = parent], "refresh_files:listdir"),
                      Msg("Error: " \o ls.err, <<>>, 0), TRUE)
    ELSE [S EXCEPT !.files = IF all = <<>> THEN <<>>
                             ELSE <<all[1]>> \o Sorted(Tail(all))]

\* a faulty navigate_to that forgets the clipboard
navigate_to_forget(S, path, E) ==
    refresh_files([Call(S, "navigate_to") EXCEPT !.current_path = Norm(path),
                                                 !.selected_idx = 0,
                                                 !.top_idx = 0,
                                                 !.clipboard = <<>>], E)

\* FkFiles.navigate_to; path is absolute and refresh_files raises nothing
navigate_to(S, path, E) ==
    refresh_files([Call(S, "navigate_to") EXCEPT !.current_path = Norm(path),
                                                 !.selected_idx = 0,
                                                 !.top_idx = 0], E)

\* subprocess.run([opener, file_path], check=True): the opener is handed
\* file_path
Opener(S, file_path) == [Call(S, "opener") EXCEPT !.opened = Append(@, file_path)]

\* a faulty open_file that hands directories to the opener too
open_file_external(S0, file_path, E) ==
    LET S == Call(S0, "open_file") IN
    IF E.opens THEN Opener(S, file_path)
    ELSE show_message(Failed(Opener(S, file_path), "open_file:opener"),
                      Msg("Error: opener", <<>>, 0), TRUE)

\* FkFiles.open_file
open_file(S0, file_path, E) ==
    LET S == Call(S0, "open_file") IN
    IF OsIsDir(S.fs, file_path) THEN navigate_to(S, file_path, E)
    ELSE IF E.opens THEN Opener(S, file_path)
    ELSE show_message(Failed(Opener(S, file_path), "open_file:opener"),
                      Msg("Error: opener", <<>>, 0), TRUE)

\* a faulty delete_file that removes a directory together with what it holds
delete_file_rmtree(S0, E) ==
    LET S == Call(S0, "delete_file") IN
    IF S.selected_idx >= Len(S.files) THEN S
    ELSE IF ~PyIndexOk(S.files, S.selected_idx) THEN Raise(S, "IndexError")
    ELSE
    LET file == PyAt(S.files, S.selected_idx)
        gone == Subtree(S.fs, Norm(file.full_path))
        R == refresh_files(
                 show_message([S EXCEPT !.fs = Without(S.fs, gone)],
                     Msg(IF file.is_dir THEN "Directory deleted: " ELSE "File deleted: ",
                         file.name, 0), FALSE), E)
    IN
    IF file.name = DotDot THEN S
    ELSE IF ~S.fs[Parent(Norm(file.full_path))].w
    THEN show_message(Failed(S, "delete_file:remove"),
                      Msg("Error: EACCES", <<>>, 0), TRUE)
    ELSE [R EXCEPT !.selected_idx =
              IF S.selected_idx <= Len(R.files) - 1 THEN S.selected_idx
              ELSE Len(R.files) - 1]

\* FkFiles.delete_file
delete_file(S0, E) ==
    LET S == Call(S0, "delete_file") IN
    IF S.selected_idx >= Len(S.files) THEN S
    ELSE IF ~PyIndexOk(S.files, S.selected_idx) THEN Raise(S, "IndexError")
    ELSE
    LET file == PyAt(S.files, S.selected_idx)
        ls == OsListdir(S.fs, file.full_path, E.rev)
        rm == IF file.is_dir THEN OsRmdir(S.fs, file.full_path)
              ELSE OsUnlink(S.fs, file.full_path)
        R == refresh_files(
                 show_message([S EXCEPT !.fs = rm.fs],
                     Msg(IF file.is_dir THEN "Directory deleted: " ELSE "File deleted: ",
                         file.name, 0), FALSE), E)
    IN
    IF file.name = DotDot THEN S
    ELSE IF file.is_dir /\ ls.err # ""
    THEN show_message(Failed(S, "delete_file:listdir"),
                      Msg("Error: " \o ls.err, <<>>, 0), TRUE)
    ELSE IF file.is_dir /\ Len(ls.names) # 0
    THEN show_message(S, Msg("Directory not empty!", <<>>, 0), TRUE)
    ELSE IF rm.err # ""
    THEN show_message(Failed(S, "delete_file:remove"),
                      Msg("Error: " \o rm.err, <<>>, 0), TRUE)
    ELSE [R EXCEPT !.selected_idx =
              IF S.selected_idx <= Len(R.files) - 1 THEN S.selected_idx
              ELSE Len(R.files) - 1]

\* FkFiles.copy_file
copy_file(S0) ==
    LET S == Call(S0, "copy_file") IN
    IF S.selected_idx < Len(S.files)
    THEN IF ~PyIndexOk(S.files, S.selected_idx) THEN Raise(S, "IndexError")
         ELSE show_message(
                  [S EXCEPT !.clipboard = <<PyAt(S.files, S.selected_idx).full_path>>,
                            !.clipboard_is_cut = FALSE],
                  Msg("Copied to clipboard", <<>>, 0), FALSE)
    ELSE S

\* FkFiles.cut_file
cut_file(S0) ==
    LET S == Call(S0, "cut_file") IN
    IF S.selected_idx < Len(S.files)
    THEN IF ~PyIndexOk(S.files, S.selected_idx) THEN Raise(S, "IndexError")
         ELSE show_message(
                  [S EXCEPT !.clipboard = <<PyAt(S.files, S.selected_idx).full_path>>,
                            !.clipboard_is_cut = TRUE],
                  Msg("Cut to clipboard", <<>>, 0), FALSE)
    ELSE S

\* the body of the loop of paste_files for one src_path
paste_one(S0, src_path) ==
    LET S == Call(S0, "paste_one")
        dst_path == Append(S.current_path, Basename(src_path))
        mv == OsRename(S.fs, src_path, dst_path)
        cp == OsCp(S.fs, src_path, dst_path, OsIsDir(S.fs, src_path))
        op == IF S.clipboard_is_cut THEN mv ELSE cp
    IN
    IF op.err # ""
    THEN show_message(Failed(S, IF S.clipboard_is_cut THEN "paste_files:rename"
                                ELSE "paste_files:cp"),
                      Msg("Error: " \o op.err, <<>>, 0), TRUE)
    ELSE show_message([S EXCEPT !.fs = op.fs],
                      Msg(IF S.clipboard_is_cut THEN "Moved: " ELSE "Copied: ",
                          Basename(src_path), 0), FALSE)

RECURSIVE paste_each(_, _)
paste_each(S, paths) ==
    IF paths = <<>> THEN S ELSE paste_each(paste_one(S, paths[1]), Tail(paths))

\* a faulty paste_files that reports an empty clipboard as information
paste_files_quiet(S0, E) ==
    LET S == Call(S0, "paste_files") IN
    IF S.clipboard = <<>>
    THEN show_message(S, Msg("Clipboard is empty", <<>>, 0), FALSE)
    ELSE refresh_files([paste_each(S, S.clipboard) EXCEPT !.clipboard = <<>>], E)

\* a faulty paste_files that keeps the clipboard when a paste failed
paste_files_keep(S0, E) ==
    LET S == Call(S0, "paste_files")
        T == paste_each(S, S.clipboard)
    IN
    IF S.clipboard = <<>>
    THEN show_message(S, Msg("Clipboard is empty", <<>>, 0), TRUE)
    ELSE refresh_files(IF T.fails = <<>> THEN [T EXCEPT !.clipboard = <<>>] ELSE T, E)

\* FkFiles.paste_files
paste_files(S0, E) ==
    LET S == Call(S0, "paste_files") IN
    IF S.clipboard = <<>>
    THEN show_message(S, Msg("Clipboard is empty", <<>>, 0), TRUE)
    ELSE refresh_files([paste_each(S, S.clipboard) EXCEPT !.clipboard = <<>>], E)

\* a faulty rename_file that does not refuse the `..` entry
rename_file_any(S0, new_name, E) ==
    LET S == Call(S0, "rename_file") IN
    IF S.selected_idx >= Len(S.files) THEN S
    ELSE IF ~PyIndexOk(S.files, S.selected_idx) THEN Raise(S, "IndexError")
    ELSE
    LET file == PyAt(S.files, S.selected_idx)
        mv == OsRename(S.fs, file.full_path, JoinStr(S.current_path, new_name))
    IN
    IF mv.err # ""
    THEN show_message(Failed(S, "rename_file:rename"),
                      Msg("Error: " \o mv.err, <<>>, 0), TRUE)
    ELSE show_message(refresh_files([S EXCEPT !.fs = mv.fs], E),
                      Msg("Renamed to: ", new_name, 0), FALSE)

\* FkFiles.rename_file
rename_file(S0, new_name, E) ==
    LET S == Call(S0, "rename_file") IN
    IF S.selected_idx >= Len(S.files) THEN S
    ELSE IF ~PyIndexOk(S.files, S.selected_idx) THEN Raise(S, "IndexError")
    ELSE
    LET file == PyAt(S.files, S.selected_idx)
        mv == OsRename(S.fs, file.full_path, JoinStr(S.current_path, new_name))
    IN
    IF file.name = DotDot THEN S
    ELSE IF mv.err # ""
    THEN show_message(Failed(S, "rename_file:rename"),
                      Msg("Error: " \o mv.err, <<>>, 0), TRUE)
    ELSE show_message(refresh_files([S EXCEPT !.fs = mv.fs], E),
                      Msg("Renamed to: ", new_name, 0), FALSE)

\* FkFiles.create_directory
create_directory(S0, dir_name, E) ==
    LET S == Call(S0, "create_directory")
        mk == OsMakedirs(S.fs, JoinStr(S.current_path, dir_name))
    IN
    IF mk.err # ""
    THEN show_message(Failed(S, "create_directory:makedirs"),
                      Msg("Error: " \o mk.err, <<>>, 0), TRUE)
    ELSE show_message(refresh_files([S EXCEPT !.fs = mk.fs], E),
                      Msg("Directory created: ", dir_name, 0), FALSE)

\* the indices search_file collects: the first 5 matches in listing order
RECURSIVE Matches(_, _, _, _)
Matches(fl, pattern, idx, found) ==
    IF idx >= Len(fl) \/ Len(found) >= 5 THEN found
    ELSE Matches(fl, pattern, idx + 1,
                 IF Contains(LowerStr(fl[idx + 1].name), pattern)
                 THEN Append(found, idx) ELSE found)

\* a faulty search_file that compares the pattern as typed
search_file_cased(S0, pattern0) ==
    LET S == Call(S0, "search_file")
        matches == Matches(S.files, pattern0, 0, <<>>)
    IN
    IF matches # <<>>
    THEN show_message([S EXCEPT !.selected_idx = matches[1],
                                !.top_idx = IF matches[1] - 2 > 0 THEN matches[1] - 2 ELSE 0],
                      Msg("Found matches", <<>>, Len(matches)), FALSE)
    ELSE show_message(S, Msg("No matches found", <<>>, 0), TRUE)

\* FkFiles.search_file
search_file(S0, pattern0) ==
    LET S == Call(S0, "search_file")
        matches == Matches(S.files, LowerStr(pattern0), 0, <<>>)
    IN
    IF matches # <<>>
    THEN show_message([S EXCEPT !.selected_idx = matches[1],
                                !.top_idx = IF matches[1] - 2 > 0 THEN matches[1] - 2 ELSE 0],
                      Msg("Found matches", <<>>, Len(matches)), FALSE)
    ELSE show_message(S, Msg("No matches found", <<>>, 0), TRUE)

\* FkFiles.view_file: prints the file outside curses and waits for a line;
\* every failure is caught, no field changes
view_file(S, file_path) ==
    IF ~OsIsFile(S.fs, file_path)
    THEN show_message(Call(S, "view_file"), Msg("Not a file", <<>>, 0), TRUE)
    ELSE Call(S, "view_file")

----------------------------------------------------------------------------
(* Bounds of the model and constants of the program *)

MinHeight == 10
MinWidth == 40

\* the terminal the session runs in
TermLines == 10
TermCols == 40

\* no path of the filesystem is longer, and the filesystem holds no more nodes
MaxDepth == 4
MaxNodes == 15

\* paste_files processes no more clipboard entries in one session
MaxPastes == 1

\* the sessions that create and rename are followed until they have changed
\* the filesystem this many times
MaxEdits == 2

\* os.getcwd() when the program starts
StartDir == <<<<119>>>>

\* self.panel_width, set once by check_terminal_size
PanelWidth == (TermCols \div 2) - 1

\* curses key codes
KEY_DOWN == 258
KEY_UP == 259
KEY_BACKSPACE == 263
KEY_MOUSE == 409
KEY_RESIZE == 410

----------------------------------------------------------------------------
(* Command interpreter and input dispatcher *)

\* FkFiles.show_about / FkFiles.show_help: draw the text, then block in getch
show_about(S) == [Call(S, "show_about") EXCEPT !.pending = "about"]
show_help(S) == [Call(S, "show_help") EXCEPT !.pending = "help"]

\* a faulty execute_command whose p command navigates without asking whether
\* the path is a directory
execute_command_unchecked(S0, E) ==
    LET S == Call(S0, "execute_command")
        cmd_parts == Tokens(S.command, {32})
        cmd == cmd_parts[1]
        args == Tail(cmd_parts)
        path == JoinSpace(args)
    IN
    IF StartsWith(S.command, <<47>>) THEN search_file(S, Tail(S.command))
    ELSE IF cmd_parts = <<>> THEN S
    ELSE IF cmd = <<113>> THEN Raise(S, "KeyboardInterrupt")
    ELSE IF cmd = <<104, 100, 110>>
    THEN LET T == refresh_files([S EXCEPT !.show_hidden = ~S.show_hidden], E)
         IN show_message(T, Msg(IF T.show_hidden THEN "Hidden files: ON"
                                ELSE "Hidden files: OFF", <<>>, 0), FALSE)
    ELSE IF cmd = <<109, 107, 100, 105, 114>> /\ args # <<>>
    THEN create_directory(S, JoinSpace(args), E)
    ELSE IF cmd = <<114, 101, 110>> /\ args # <<>>
    THEN rename_file(S, JoinSpace(args), E)
    ELSE IF cmd = <<97, 98, 111, 117, 116>> THEN show_about(S)
    ELSE IF cmd = <<115, 115>> /\ args # <<>> THEN search_file(S, JoinSpace(args))
    ELSE IF cmd = <<112>> /\ args # <<>>
    THEN navigate_to(S, JoinStr(StartDir, path), E)
    ELSE show_message(S, Msg("Unknown command: ", cmd, 0), TRUE)

\* FkFiles.execute_command
execute_command(S0, E) ==
    LET S == Call(S0, "execute_command")
        cmd_parts == Tokens(S.command, {32})
        cmd == cmd_parts[1]
        args == Tail(cmd_parts)
        path == JoinSpace(args)
    IN
    IF StartsWith(S.command, <<47>>) THEN search_file(S, Tail(S.command))
    ELSE IF cmd_parts = <<>> THEN S
    ELSE IF cmd = <<113>> THEN Raise(S, "KeyboardInterrupt")
    ELSE IF cmd = <<104, 100, 110>>
    THEN LET T == refresh_files([S EXCEPT !.show_hidden = ~S.show_hidden], E)
         IN show_message(T, Msg(IF T.show_hidden THEN "Hidden files: ON"
                                ELSE "Hidden files: OFF", <<>>, 0), FALSE)
    ELSE IF cmd = <<109, 107, 100, 105, 114>> /\ args # <<>>
    THEN create_directory(S, JoinSpace(args), E)
    ELSE IF cmd = <<114, 101, 110>> /\ args # <<>>
    THEN rename_file(S, JoinSpace(args), E)
    ELSE IF cmd = <<97, 98, 111, 117, 116>> THEN show_about(S)
    ELSE IF cmd = <<115, 115>> /\ args # <<>> THEN search_file(S, JoinSpace(args))
    ELSE IF cmd = <<112>> /\ args # <<>>
    THEN IF OsIsDir(S.fs, JoinStr(StartDir, path))
         THEN navigate_to(S, JoinStr(StartDir, path), E)
         ELSE show_message(S, Msg("Invalid path", <<>>, 0), TRUE)
    ELSE show_message(S, Msg("Unknown command: ", cmd, 0), TRUE)

\* FkFiles.handle_mouse_event; ev is what curses.getmouse() returns
handle_mouse_event(S0, ev, E) ==
    LET S == Call(S0, "handle_mouse_event")
        h == S.lines
        idx == S.top_idx + (ev.y - 1)
        T == [S EXCEPT !.selected_idx = idx]
    IN
    IF ev.y = 0 \/ ev.y >= h - 3 \/ ev.x = 0 \/ ev.x >= TermCols - 1 \/ ev.x = PanelWidth
    THEN S
    ELSE IF "BUTTON1_CLICKED" \in ev.bstate
    THEN IF ev.y >= 1 /\ ev.y < h - 3 /\ idx < Len(S.files)
         THEN IF "BUTTON1_DOUBLE_CLICKED" \in ev.bstate
              THEN IF PyIndexOk(T.files, idx)
                   THEN open_file(T, PyAt(T.files, idx).full_path, E)
                   ELSE T
              ELSE T
         ELSE S
    ELSE IF "BUTTON3_CLICKED" \in ev.bstate
    THEN IF S.selected_idx < Len(S.files) /\ PyIndexOk(S.files, S.selected_idx)
            /\ PyAt(S.files, S.selected_idx).name # DotDot
         THEN show_message(S, Msg("Right click on: ",
                                  PyAt(S.files, S.selected_idx).name, 0), FALSE)
         ELSE S
    ELSE S

\* a faulty command_mode branch that stays in command mode, buffer kept,
\* when the command ended with an error message
command_key_sticky(S, key, E) ==
    IF key = 27 THEN [S EXCEPT !.command_mode = FALSE, !.command = <<>>]
    ELSE IF key = KEY_BACKSPACE \/ key = 127
    THEN [S EXCEPT !.command = SubSeq(@, 1, Len(@) - 1)]
    ELSE IF key = 10
    THEN LET T == execute_command(S, E)
         IN IF T.exc # "" \/ T.pending # "none" \/ T.color = "error" THEN T
            ELSE [T EXCEPT !.command_mode = FALSE, !.command = <<>>]
    ELSE IF 32 <= key /\ key <= 126 THEN [S EXCEPT !.command = Append(@, key)]
    ELSE S

\* handle_input, command_mode branch
command_key(S, key, E) ==
    IF key = 27 THEN [S EXCEPT !.command_mode = FALSE, !.command = <<>>]
    ELSE IF key = KEY_BACKSPACE \/ key = 127
    THEN [S EXCEPT !.command = SubSeq(@, 1, Len(@) - 1)]
    ELSE IF key = 10
    THEN LET T == execute_command(S, E)
         IN IF T.exc # "" \/ T.pending # "none" THEN T
            ELSE [T EXCEPT !.command_mode = FALSE, !.command = <<>>]
    ELSE IF 32 <= key /\ key <= 126 THEN [S EXCEPT !.command = Append(@, key)]
    ELSE S

\* handle_input, `l` / Enter branch
open_selected(S0, E) ==
    LET S == Call(S0, "open_selected") IN
    IF Len(S.files) > 0
    THEN IF PyIndexOk(S.files, S.selected_idx)
         THEN open_file(S, PyAt(S.files, S.selected_idx).full_path, E)
         ELSE Raise(S, "IndexError")
    ELSE S

\* handle_input, `v` branch
view_selected(S0) ==
    LET S == Call(S0, "view_selected") IN
    IF Len(S.files) > 0
    THEN IF PyIndexOk(S.files, S.selected_idx)
         THEN IF ~PyAt(S.files, S.selected_idx).is_dir
              THEN view_file(S, PyAt(S.files, S.selected_idx).full_path)
              ELSE S
         ELSE Raise(S, "IndexError")
    ELSE S

\* handle_input, j / KEY_DOWN branch
move_down(S0) ==
    LET S == Call(S0, "move_down") IN
    IF S.selected_idx < Len(S.files) - 1
    THEN [S EXCEPT !.selected_idx = @ + 1,
                   !.top_idx = IF S.selected_idx + 1 >= S.top_idx + (S.lines - 5)
                               THEN @ + 1 ELSE @]
    ELSE S

\* handle_input, k / KEY_UP branch
move_up(S0) ==
    LET S == Call(S0, "move_up") IN
    IF S.selected_idx > 0
    THEN [S EXCEPT !.selected_idx = @ - 1,
                   !.top_idx = IF S.selected_idx - 1 < S.top_idx THEN @ - 1 ELSE @]
    ELSE S

\* handle_input, gg branch
jump_top(S) == [Call(S, "jump_top") EXCEPT !.selected_idx = 0, !.top_idx = 0]

\* handle_input, G branch
jump_bottom(S0) ==
    LET S == Call(S0, "jump_bottom") IN
    [S EXCEPT !.selected_idx = Len(S.files) - 1,
              !.top_idx = IF Len(S.files) - (S.lines - 5) > 0
                          THEN Len(S.files) - (S.lines - 5) ELSE 0]

\* a faulty dispatch that binds the key x to cut_file
normal_key_cut(S, key, E) ==
    IF key = 106 \/ key = KEY_DOWN THEN move_down(S)
    ELSE IF key = 107 \/ key = KEY_UP THEN move_up(S)
    ELSE IF key = 108 \/ key = 10 THEN open_selected(S, E)
    ELSE IF key = 104
    THEN IF S.current_path # Root
         THEN navigate_to(S, Append(S.current_path, DotDot), E)
         ELSE S
    ELSE IF key = 103 THEN [S EXCEPT !.pending = "g"]
    ELSE IF key = 71 THEN jump_bottom(S)
    ELSE IF key = 58 THEN [S EXCEPT !.command_mode = TRUE, !.command = <<>>]
    ELSE IF key = 47 THEN [S EXCEPT !.command_mode = TRUE, !.command = <<47>>]
    ELSE IF key = 63 THEN show_help(S)
    ELSE IF key = 100 THEN [S EXCEPT !.pending = "d"]
    ELSE IF key = 121 THEN [S EXCEPT !.pending = "y"]
    ELSE IF key = 112 THEN [S EXCEPT !.pending = "p"]
    ELSE IF key = 118 THEN view_selected(S)
    ELSE IF key = 120 THEN cut_file(S)
    ELSE S

\* handle_input, the branches of a key read in normal mode
normal_key(S, key, E) ==
    IF key = 106 \/ key = KEY_DOWN THEN move_down(S)
    ELSE IF key = 107 \/ key = KEY_UP THEN move_up(S)
    ELSE IF key = 108 \/ key = 10 THEN open_selected(S, E)
    ELSE IF key = 104
    THEN IF S.current_path # Root
         THEN navigate_to(S, Append(S.current_path, DotDot), E)
         ELSE S
    ELSE IF key = 103 THEN [S EXCEPT !.pending = "g"]
    ELSE IF key = 71 THEN jump_bottom(S)
    ELSE IF key = 58 THEN [S EXCEPT !.command_mode = TRUE, !.command = <<>>]
    ELSE IF key = 47 THEN [S EXCEPT !.command_mode = TRUE, !.command = <<47>>]
    ELSE IF key = 63 THEN show_help(S)
    ELSE IF key = 100 THEN [S EXCEPT !.pending = "d"]
    ELSE IF key = 121 THEN [S EXCEPT !.pending = "y"]
    ELSE IF key = 112 THEN [S EXCEPT !.pending = "p"]
    ELSE IF key = 118 THEN view_selected(S)
    ELSE S

\* handle_input from its first getch, for a key other than KEY_MOUSE
handle_input(S, key, E) ==
    IF S.command_mode THEN command_key(S, key, E) ELSE normal_key(S, key, E)

\* a faulty continuation that hands a second key that does not complete the
\* chord to the normal-mode dispatch
resume_input_dispatch(S0, next_key, E) ==
    LET S == [S0 EXCEPT !.pending = "none"] IN
    IF S0.pending = "g"
    THEN IF next_key = 103 THEN jump_top(S) ELSE normal_key(S, next_key, E)
    ELSE IF S0.pending = "d"
    THEN IF next_key = 100 THEN delete_file(S, E) ELSE normal_key(S, next_key, E)
    ELSE IF S0.pending = "y"
    THEN IF next_key = 121 THEN copy_file(S) ELSE normal_key(S, next_key, E)
    ELSE IF S0.pending = "p"
    THEN IF next_key = 112 THEN paste_files(S, E) ELSE normal_key(S, next_key, E)
    ELSE IF S0.pending = "about"
    THEN [S EXCEPT !.command_mode = FALSE, !.command = <<>>]
    ELSE S

\* the rest of a call that blocked in a nested getch, once next_key is read
resume_input(S0, next_key, E) ==
    LET S == [S0 EXCEPT !.pending = "none"] IN
    IF S0.pending = "g"
    THEN IF next_key = 103 THEN jump_top(S) ELSE S
    ELSE IF S0.pending = "d" THEN IF next_key = 100 THEN delete_file(S, E) ELSE S
    ELSE IF S0.pending = "y" THEN IF next_key = 121 THEN copy_file(S) ELSE S
    ELSE IF S0.pending = "p" THEN IF next_key = 112 THEN paste_files(S, E) ELSE S
    ELSE IF S0.pending = "about"
    THEN [S EXCEPT !.command_mode = FALSE, !.command = <<>>]
    ELSE S

\* a faulty main that reports KeyboardInterrupt like any other exception
main_loop_fatal(S) ==
    IF S.exc # "" THEN [S EXCEPT !.run = "exit1", !.exc = ""] ELSE S

\* main: KeyboardInterrupt leaves the loop, any other exception is reported
\* and the process exits with status 1
main_loop(S) ==
    IF S.exc = "KeyboardInterrupt" THEN [S EXCEPT !.run = "exit0", !.exc = ""]
    ELSE IF S.exc # "" THEN [S EXCEPT !.run = "exit1", !.exc = ""]
    ELSE S

----------------------------------------------------------------------------
(* The session: construction, then one action per event read by the loop   *)
(* of main.                                                                 *)

\* the filesystem at startup (the root is not writable, /L is not readable,
\* /w/s is a dangling symbolic link):
\*   /.h  /B  /L/  /a  /c  /e/  /w/a  /w/b  /w/c  /w/d/x  /w/s
InitFs ==
    (<<>> :> Dir(TRUE, FALSE))
    @@ (<< <<46, 104>> >> :> File(1))
    @@ (<< <<66>> >> :> File(2))
    @@ (<< <<76>> >> :> Dir(FALSE, TRUE))
    @@ (<< <<97>> >> :> File(3))
    @@ (<< <<99>> >> :> File(4))
    @@ (<< <<101>> >> :> Dir(TRUE, TRUE))
    @@ (<< <<119>> >> :> Dir(TRUE, TRUE))
    @@ (<< <<119>>, <<97>> >> :> File(5))
    @@ (<< <<119>>, <<98>> >> :> File(6))
    @@ (<< <<119>>, <<99>> >> :> File(7))
    @@ (<< <<119>>, <<100>> >> :> Dir(TRUE, TRUE))
    @@ (<< <<119>>, <<100>>, <<120>> >> :> File(8))
    @@ (<< <<119>>, <<115>> >> :> [kind |-> "dangling", r |-> TRUE, w |-> TRUE, data |-> 0])

\* what the environment may decide during a call
Envs == [rev : BOOLEAN, opens : BOOLEAN]
ListEnvs == [rev : BOOLEAN, opens : {TRUE}]
NoEnvs == [rev : {FALSE}, opens : {TRUE}]

\* every key the model presses in normal mode, and as the second key of a
\* chord:  j k l Enter h g G : / ? d y p v Down Up x Esc
AllKeys == {106, 107, 108, 10, 104, 103, 71, 58, 47, 63, 100, 121, 112, 118,
            KEY_DOWN, KEY_UP, 120, 27}

\* the keys pressed in command mode besides the characters of a command line
EditKeys == {27, 127, KEY_BACKSPACE, 10, KEY_UP}

\* each character typed extends a prefix of one of the command lines Sc
Typed(Sc, cmd, key) == \E sc \in Sc : StartsWith(sc, Append(cmd, key))

FsWithinBounds(f) ==
    /\ Cardinality(DOMAIN f) <= MaxNodes
    /\ \A q \in DOMAIN f : Len(q) <= MaxDepth

\* the snapshot of the current state, before an event is handled
Cur ==
    [fs |-> fs, current_path |-> current_path, files |-> files,
     selected_idx |-> selected_idx, top_idx |-> top_idx,
     command_mode |-> command_mode, command |-> command,
     message |-> message, color |-> color, show_hidden |-> show_hidden,
     clipboard |-> clipboard, clipboard_is_cut |-> clipboard_is_cut,
     lines |-> lines, pending |-> pending, run |-> run,
     exc |-> "", calls |-> <<>>, fails |-> <<>>, opened |-> <<>>]

\* what curses.getmouse() holds when the event read is not a mouse event
NoEvent == [x |-> 0, y |-> 0, bstate |-> {}]

\* the state after an event: the snapshot S the handler returned; ev is the
\* mouse event the handler read, if any
CommitEv(S, key, ev) ==
    /\ FsWithinBounds(S.fs)
    /\ fs' = S.fs
    /\ current_path' = S.current_path
    /\ files' = S.files
    /\ selected_idx' = S.selected_idx
    /\ top_idx' = S.top_idx
    /\ command_mode' = S.command_mode
    /\ command' = S.command
    /\ message' = S.message
    /\ color' = S.color
    /\ show_hidden' = S.show_hidden
    /\ clipboard' = S.clipboard
    /\ clipboard_is_cut' = S.clipboard_is_cut
    /\ lines' = S.lines
    /\ pending' = S.pending
    /\ run' = S.run
    /\ last' = [key |-> key, from |-> pending, ev |-> ev,
                calls |-> S.calls, fails |-> S.fails, opened |-> S.opened]
    /\ pastes' = pastes + Cardinality({i \in 1..Len(S.calls) : S.calls[i] = "paste_one"})
    /\ pastes' <= MaxPastes
    /\ edits' = IF S.fs # fs /\ edits < MaxEdits THEN edits + 1 ELSE edits

Commit(S, key) == CommitEv(S, key, NoEvent)

\* FkFiles.__init__ up to check_terminal_size
Fresh(f0, ln) ==
    [fs |-> f0, current_path |-> StartDir, files |-> <<>>,
     selected_idx |-> 0, top_idx |-> 0, command_mode |-> FALSE, command |-> <<>>,
     message |-> Msg("", <<>>, 0), color |-> "unset", show_hidden |-> FALSE,
     clipboard |-> <<>>, clipboard_is_cut |-> FALSE,
     lines |-> ln, pending |-> "none", run |-> "running",
     exc |-> "", calls |-> <<>>, fails |-> <<>>, opened |-> <<>>]

\* FkFiles.__init__: check_terminal_size exits with status 1 on a terminal
\* smaller than 40x10, else refresh_files fills the listing
Construct(f0, ln, E) ==
    IF ln < MinHeight \/ TermCols < MinWidth
    THEN [Call(Fresh(f0, ln), "check_terminal_size") EXCEPT !.run = "exit1"]
    ELSE refresh_files(Call(Fresh(f0, ln), "check_terminal_size"), E)

\* the program started in StartDir on the filesystem f0
InitOn(f0) ==
    \E ln \in {MinHeight - 1, TermLines}, E \in ListEnvs :
        LET S == Construct(f0, ln, E) IN
        /\ fs = S.fs
        /\ current_path = S.current_path
        /\ files = S.files
        /\ selected_idx = S.selected_idx
        /\ top_idx = S.top_idx
        /\ command_mode = S.command_mode
        /\ command = S.command
        /\ message = S.message
        /\ color = S.color
        /\ show_hidden = S.show_hidden
        /\ clipboard = S.clipboard
        /\ clipboard_is_cut = S.clipboard_is_cut
        /\ lines = S.lines
        /\ pending = S.pending
        /\ run = S.run
        /\ last = [key |-> -1, from |-> "none", ev |-> NoEvent,
                   calls |-> S.calls, fails |-> S.fails, opened |-> S.opened]
        /\ pastes = 0
        /\ edits = 0

Init == InitOn(InitFs)

\* main's loop reads one of the keys K in normal mode
NormalKey(K) ==
    /\ run = "running" /\ pending = "none" /\ ~command_mode
    /\ \E key \in K :
         \E E \in IF key \in {108, 10, 104} THEN Envs ELSE NoEnvs :
           Commit(main_loop(handle_input(Cur, key, E)), key)

\* main's loop reads a key in command mode: an editing key or the next
\* character of one of the command lines Sc
CommandKey(Sc) ==
    /\ run = "running" /\ pending = "none" /\ command_mode
    /\ \E key \in EditKeys \cup 32..126 :
         /\ key \in EditKeys \/ Typed(Sc, command, key)
         /\ \E E \in IF key = 10 THEN ListEnvs ELSE NoEnvs :
              Commit(main_loop(handle_input(Cur, key, E)), key)

\* a call blocked in a nested getch (second key of a chord, help, about)
\* reads one of the keys K
NextKey(K) ==
    /\ run = "running" /\ pending # "none"
    /\ \E key \in K :
         \E E \in IF key \in {100, 112} THEN ListEnvs ELSE NoEnvs :
           Commit(main_loop(resume_input(Cur, key, E)), key)

\* main's loop reads KEY_MOUSE: handle_input hands over to handle_mouse_event
MouseKey(M) ==
    /\ run = "running" /\ pending = "none"
    /\ \E ev \in M :
         \E E \in IF "BUTTON1_DOUBLE_CLICKED" \in ev.bstate THEN Envs ELSE NoEnvs :
           CommitEv(main_loop(handle_mouse_event(Cur, ev, E)), KEY_MOUSE, ev)

\* the terminal is resized to one of the heights L: getmaxyx and
\* curses.LINES change and the pending getch returns KEY_RESIZE
Resize(L) ==
    /\ run = "running"
    /\ \E ln \in L \ {lines} :
         LET S == [Cur EXCEPT !.lines = ln] IN
         IF pending = "none"
         THEN Commit(main_loop(handle_input(S, KEY_RESIZE, CHOOSE E \in NoEnvs : TRUE)),
                     KEY_RESIZE)
         ELSE Commit(main_loop(resume_input(S, KEY_RESIZE, CHOOSE E \in NoEnvs : TRUE)),
                     KEY_RESIZE)

\* FkFiles.cut_file is bound to no key: a caller invokes it directly
CutCall ==
    /\ run = "running" /\ pending = "none" /\ ~command_mode
    /\ Commit(main_loop(cut_file(Cur)), -1)

----------------------------------------------------------------------------
(* Specifications: the whole dispatcher under the inputs of one kind of     *)
(* session each.                                                            *)

\* Browsing: moving, entering and leaving directories, toggling hidden
\* files, quitting.  Keys: j k l Enter h g G :    Command lines:  q   hdn
BrowseKeys == {106, 107, 108, 10, 104, 103, 71, 58}

BrowseScripts == { <<113>>, <<104, 100, 110>> }

Next ==
    \/ NormalKey(BrowseKeys)
    \/ CommandKey(BrowseScripts)
    \/ NextKey(AllKeys \cup {KEY_MOUSE})

Spec == Init /\ [][Next]_vars

\* Deleting in the start directory: moving, searching, dd.
\* Keys: j k d /    Command line:  /c    Second keys: d j
DeleteKeys == {106, 107, 100, 47}

DeleteScripts == { <<47, 99>> }

NextDelete ==
    \/ NormalKey(DeleteKeys)
    \/ CommandKey(DeleteScripts)
    \/ NextKey({100, 106})

SpecDelete == Init /\ [][NextDelete]_vars

\* The filesystem at startup of the sessions below is writable everywhere:
\*   /e/d/  /w/a  /w/d/x
ClipFs ==
    (<<>> :> Dir(TRUE, TRUE))
    @@ (<< <<101>> >> :> Dir(TRUE, TRUE))
    @@ (<< <<101>>, <<100>> >> :> Dir(TRUE, TRUE))
    @@ (<< <<119>> >> :> Dir(TRUE, TRUE))
    @@ (<< <<119>>, <<97>> >> :> File(2))
    @@ (<< <<119>>, <<100>> >> :> Dir(TRUE, TRUE))
    @@ (<< <<119>>, <<100>>, <<120>> >> :> File(3))

\* Chords in the start directory: every leader, followed by every key.
\* Keys: j g d y p
ChordKeys == {106, 103, 100, 121, 112}

NextChord ==
    \/ NormalKey(ChordKeys)
    \/ NextKey(AllKeys \cup {KEY_MOUSE})

SpecChord == InitOn(ClipFs) /\ [][NextChord]_vars

\* Clipboard: copy or cut an entry, go elsewhere, paste; the session is
\* followed until its last paste.  Keys: j l y p, and calls of cut_file.
ClipKeys == {106, 108, 121, 112}

ClipKey == pastes < MaxPastes /\ NormalKey(ClipKeys)

ClipNextKey == pastes < MaxPastes /\ NextKey({121, 112})

ClipCut == pastes < MaxPastes /\ CutCall

NextClip ==
    \/ ClipKey
    \/ ClipNextKey
    \/ ClipCut

SpecClip == InitOn(ClipFs) /\ [][NextClip]_vars

\* Searching: a start directory with more than five names that hold an a.
\*   /w/Ab  /w/a  /w/ad/  /w/b  /w/ba  /w/ca  /w/da  /w/ea
SearchFs ==
    (<<>> :> Dir(TRUE, TRUE))
    @@ (<< <<119>> >> :> Dir(TRUE, TRUE))
    @@ (<< <<119>>, <<65, 98>> >> :> File(1))
    @@ (<< <<119>>, <<97>> >> :> File(2))
    @@ (<< <<119>>, <<97, 100>> >> :> Dir(TRUE, TRUE))
    @@ (<< <<119>>, <<98>> >> :> File(3))
    @@ (<< <<119>>, <<98, 97>> >> :> File(4))
    @@ (<< <<119>>, <<99, 97>> >> :> File(5))
    @@ (<< <<119>>, <<100, 97>> >> :> File(6))
    @@ (<< <<119>>, <<101, 97>> >> :> File(7))

\* Keys: j k G / :    Command lines:  /a  /A  /b  /e  /z  /.  ss b
SearchKeys == {106, 107, 71, 47, 58}

SearchScripts == { <<47, 97>>, <<47, 65>>, <<47, 98>>, <<47, 101>>, <<47, 122>>,
                   <<47, 46>>, <<115, 115, 32, 98>> }

NextSearch ==
    \/ NormalKey(SearchKeys)
    \/ CommandKey(SearchScripts)

SpecSearch == InitOn(SearchFs) /\ [][NextSearch]_vars

\* Creating and renaming from the command line, in a start directory that
\* holds one file:  /w/a
\* Keys: j :    Command lines:  mkdir n  f   mkdir n/f   ren x  y
MkdirFs ==
    (<<>> :> Dir(TRUE, TRUE))
    @@ (<< <<119>> >> :> Dir(TRUE, TRUE))
    @@ (<< <<119>>, <<97>> >> :> File(1))

MkdirKeys == {106, 58}

MkdirScripts == { <<109, 107, 100, 105, 114, 32, 110, 32, 32, 102>>,
                  <<109, 107, 100, 105, 114, 32, 110, 47, 102>>,
                  <<114, 101, 110, 32, 120, 32, 32, 121>> }

MkdirKey == edits < MaxEdits /\ NormalKey(MkdirKeys)

MkdirCommandKey == edits < MaxEdits /\ CommandKey(MkdirScripts)

NextMkdir ==
    \/ MkdirKey
    \/ MkdirCommandKey

SpecMkdir == InitOn(MkdirFs) /\ [][NextMkdir]_vars

\* Mouse: clicks on and around the listing of SearchFs, whose start directory
\* holds more entries than the terminal shows.  Keys: j
\* Columns: the left border, the listing, the divider, the panel to its
\* right, the right border.  Rows: the header, the first row, the row under
\* the last row drawn, the status row.
MouseKeys == {106}

MouseEvents ==
    [x : {0, 1, PanelWidth, PanelWidth + 1, TermCols - 1},
     y : {0, 1, TermLines - 4, TermLines - 3},
     bstate : { {"BUTTON1_CLICKED"}, {"BUTTON1_CLICKED", "BUTTON1_DOUBLE_CLICKED"},
                {"BUTTON1_DOUBLE_CLICKED"}, {"BUTTON3_CLICKED"} }]

NextMouse ==
    \/ NormalKey(MouseKeys)
    \/ MouseKey(MouseEvents)

SpecMouse == InitOn(SearchFs) /\ [][NextMouse]_vars

\* Deleting and renaming with any entry selected, `..` included, on MkdirFs.
\* Keys: j k d :    Command line:  ren x    Second key: d
DotDotKeys == {106, 107, 100, 58}

DotDotScripts == { <<114, 101, 110, 32, 120>> }

NextDotDot ==
    \/ NormalKey(DotDotKeys)
    \/ CommandKey(DotDotScripts)
    \/ NextKey({100})

SpecDotDot == InitOn(MkdirFs) /\ [][NextDotDot]_vars

\* Changing the path from the command line, on ClipFs.
\* Keys: j l :    Command lines:  p /e/d   p d   p a   p zz   p ..   p ./d
PathKeys == {106, 108, 58}

PathScripts == { <<112, 32, 47, 101, 47, 100>>, <<112, 32, 100>>, <<112, 32, 97>>,
                 <<112, 32, 122, 122>>, <<112, 32, 46, 46>>,
                 <<112, 32, 46, 47, 100>> }

NextPath ==
    \/ NormalKey(PathKeys)
    \/ CommandKey(PathScripts)

SpecPath == InitOn(ClipFs) /\ [][NextPath]_vars

\* A session on ClipFs whose terminal is resized between the minimum height,
\* one line less and one line more.
\* Keys: j k l h g G :    Command lines:  q
ResizeKeys == {106, 107, 108, 104, 103, 71, 58}

ResizeScripts == { <<113>> }

ResizeHeights == {MinHeight - 1, MinHeight, MinHeight + 1}

NextResize ==
    \/ NormalKey(ResizeKeys)
    \/ CommandKey(ResizeScripts)
    \/ NextKey({103, 106})
    \/ Resize(ResizeHeights)

SpecResize == InitOn(ClipFs) /\ [][NextResize]_vars

\* A root directory the user may not list (os.listdir("/") raises
\* PermissionError), a start directory longer than the window and a
\* directory shorter than it.
LockedRootFs ==
    (<<>> :> Dir(FALSE, FALSE))
    @@ (<< <<119>> >> :> Dir(TRUE, TRUE))
    @@ (<< <<119>>, <<97>> >> :> File(1))
    @@ (<< <<119>>, <<98>> >> :> File(2))
    @@ (<< <<119>>, <<99>> >> :> File(3))
    @@ (<< <<119>>, <<100>> >> :> Dir(TRUE, TRUE))
    @@ (<< <<119>>, <<100>>, <<120>> >> :> File(4))
    @@ (<< <<119>>, <<101>> >> :> File(5))
    @@ (<< <<119>>, <<102>> >> :> File(6))

\* Jumping and moving.  Keys: j k l h g G    Second keys: g j
JumpKeys == {106, 107, 108, 104, 103, 71}

NextJump ==
    \/ NormalKey(JumpKeys)
    \/ NextKey({103, 106})
    \/ Resize({MinHeight, MinHeight + 1})

SpecJump == InitOn(LockedRootFs) /\ [][NextJump]_vars

\* Renaming onto free and taken names: two files and an empty directory in
\* the start directory, and a directory that may not be written to.
RenameFs ==
    (<<>> :> Dir(TRUE, TRUE))
    @@ (<< <<119>> >> :> Dir(TRUE, TRUE))
    @@ (<< <<119>>, <<97>> >> :> File(1))
    @@ (<< <<119>>, <<98>> >> :> File(2))
    @@ (<< <<119>>, <<100>> >> :> Dir(TRUE, TRUE))
    @@ (<< <<119>>, <<114>> >> :> Dir(TRUE, FALSE))
    @@ (<< <<119>>, <<114>>, <<120>> >> :> File(3))

\* Keys: j l :    Command lines:  ren b   ren d   ren n
RenameKeys == {106, 108, 58}

RenameScripts == { <<114, 101, 110, 32, 98>>, <<114, 101, 110, 32, 100>>,
                   <<114, 101, 110, 32, 110>> }

RenameKey == edits < MaxEdits /\ NormalKey(RenameKeys)

RenameCommandKey == edits < MaxEdits /\ CommandKey(RenameScripts)

NextRename ==
    \/ RenameKey
    \/ RenameCommandKey

SpecRename == InitOn(RenameFs) /\ [][NextRename]_vars

\* A start directory holding a file and an empty directory.
InputFs ==
    (<<>> :> Dir(TRUE, TRUE))
    @@ (<< <<119>> >> :> Dir(TRUE, TRUE))
    @@ (<< <<119>>, <<97>> >> :> File(1))
    @@ (<< <<119>>, <<116>> >> :> Dir(TRUE, TRUE))

\* Every input the dispatcher and the command interpreter know, on InputFs:
\* every key in normal mode and as the second key of a chord, one command
\* line for each command, an unknown command, and mouse events of each kind
\* on the rows of the listing.
\* Command lines:  q  hdn  mkdir n  ren x  about  ss a  p ..  /a  cut  x
InputScripts ==
    { <<113>>, <<104, 100, 110>>, <<109, 107, 100, 105, 114, 32, 110>>,
      <<114, 101, 110, 32, 120>>, <<97, 98, 111, 117, 116>>, <<115, 115, 32, 97>>,
      <<112, 32, 46, 46>>, <<47, 97>>, <<99, 117, 116>>, <<120>> }

InputEvents ==
    [x : {1}, y : {1, 2},
     bstate : { {"BUTTON1_CLICKED"}, {"BUTTON1_CLICKED", "BUTTON1_DOUBLE_CLICKED"},
                {"BUTTON3_CLICKED"} }]

\* one key for each branch of normal mode but the two that open the command
\* line, and x, which has none:  j k l h g G ? d y p v x
InputKeys == {106, 107, 108, 104, 103, 71, 63, 100, 121, 112, 118, 120}

\* the session is followed until it first changes the filesystem
WithinBudget == edits = 0 /\ pastes = 0

InputKey == WithinBudget /\ NormalKey(InputKeys)

\* the command line is opened, with : or /, before the session has shown a
\* message or copied an entry
InputColon ==
    /\ WithinBudget /\ message.text = "" /\ clipboard = <<>>
    /\ NormalKey({58, 47})

InputCommandKey == WithinBudget /\ CommandKey(InputScripts)

InputNextKey == WithinBudget /\ NextKey({103, 100, 121, 112, 120})

InputMouse == WithinBudget /\ MouseKey(InputEvents)

NextInput ==
    \/ InputKey
    \/ InputColon
    \/ InputCommandKey
    \/ InputNextKey
    \/ InputMouse

SpecInput == InitOn(InputFs) /\ [][NextInput]_vars

\* What is done between a copy and its paste, on InputFs: moving, entering
\* and leaving directories, clicking, deleting, a chord dropped, and command
\* lines typed right after the copy.
\* Keys: j k l Enter h d y p    Second keys: d y p j
\* Command lines:  p ..   /a   hdn   mkdir n   ren x
FrameKeys == {106, 107, 108, 10, 104, 100, 121, 112}

FrameScripts ==
    { <<112, 32, 46, 46>>, <<47, 97>>, <<104, 100, 110>>,
      <<109, 107, 100, 105, 114, 32, 110>>, <<114, 101, 110, 32, 120>> }

FrameEvents == [x : {1}, y : {1, 2}, bstate : { {"BUTTON1_CLICKED"} }]

FrameKey == WithinBudget /\ NormalKey(FrameKeys)

FrameColon ==
    /\ WithinBudget /\ message = Msg("Copied to clipboard", <<>>, 0)
    /\ NormalKey({58, 47})

FrameCommandKey == WithinBudget /\ CommandKey(FrameScripts)

FrameNextKey == WithinBudget /\ NextKey({100, 121, 112, 106})

FrameMouse == WithinBudget /\ MouseKey(FrameEvents)

NextFrame ==
    \/ FrameKey
    \/ FrameColon
    \/ FrameCommandKey
    \/ FrameNextKey
    \/ FrameMouse

SpecFrame == InitOn(InputFs) /\ [][NextFrame]_vars

----------------------------------------------------------------------------
(* Properties *)

Called(name) == \E i \in 1..Len(last.calls) : last.calls[i] = name
FailedIn(what) == \E i \in 1..Len(last.fails) : last.fails[i] = what

\* the listing order: `..` only at index 0, then directories
\* before files, each group ascending by lower-cased name
ListingSorted(fl) ==
    /\ \A i \in 1..Len(fl) : fl[i].name = DotDot => i = 1
    /\ \A i, j \in 1..Len(fl) :
           i < j /\ fl[i].name # DotDot => ~KeyLess(fl[j], fl[i])

\* C1 (as claimed): every listing refresh_files produces, the root's
\* included, has `..` at index 0 when present and every other entry ordered
\* directories first, then by case-insensitive name.
C1_ListingSortedEverywhere == ListingSorted(files)

\* C3 (as claimed): after an operation that rebuilds the listing or jumps to
\* its end, selected_idx is an index of the new listing.
C3_SelectionValidAfterRebuild ==
    run = "running" /\ (Called("refresh_files") \/ Called("jump_bottom"))
        => 0 <= selected_idx /\ selected_idx <= Len(files) - 1

\* the quit command was the event handled last
QuitExecuted ==
    /\ last.key = 10 /\ Called("execute_command")
    /\ Tokens(command, {32}) # <<>> /\ Tokens(command, {32})[1] = <<113>>

\* C4 (as claimed): the session ends only by a terminal too small at startup
\* or by the quit command.
C4_OnlyStartupAndQuitTerminate ==
    /\ run = "exit1" => last.key = -1 /\ lines < MinHeight
    /\ run = "exit0" => QuitExecuted

\* navigate_to ran in the last event and its listing failed
NavigateFailed == Called("navigate_to") /\ FailedIn("refresh_files:listdir")

\* C5 (as claimed): navigate on a directory that cannot be listed leaves
\* current_path, listing, selected_idx and top_idx as they were.
C5_FailedNavigateKeepsLocation ==
    [][NavigateFailed' =>
          /\ current_path' = current_path
          /\ files' = files
          /\ selected_idx' = selected_idx
          /\ top_idx' = top_idx]_vars

\* C6 (as claimed): a refresh that fails at the listing level leaves the
\* listing holding the entries it held before and shows an error message.
C6_FailedRefreshKeepsListing ==
    [][FailedIn("refresh_files:listdir")' => files' = files /\ color' = "error"]_vars

\* C2 (as stated): in every state of a running session
\*   0 <= top_idx <= selected_idx <= top_idx + visible_rows,
\* where visible_rows is the terminal height minus 5.
C2_ViewportContainsSelection ==
    run = "running" =>
        /\ 0 <= top_idx
        /\ top_idx <= selected_idx
        /\ selected_idx <= top_idx + (lines - 5)

\* the entry a dd would act on is a directory other than .. that holds
\* something
SelectedNonEmptyDir ==
    /\ selected_idx < Len(files) /\ PyIndexOk(files, selected_idx)
    /\ LET file == PyAt(files, selected_idx) IN
         /\ file.is_dir /\ file.name # DotDot
         /\ Children(fs, Norm(file.full_path)) # {}

\* C7: a dd completed on a selected directory (other than the synthetic ..)
\* that is not empty leaves the filesystem, the listing and selected_idx as
\* they were and sets an error-severity message.
C7_DeleteRefusesNonEmptyDir ==
    [][pending = "d" /\ last'.key = 100 /\ SelectedNonEmptyDir
         => /\ fs' = fs /\ files' = files /\ selected_idx' = selected_idx
            /\ color' = "error" /\ message'.text # ""
            /\ run' = "running"]_vars

C7_NonEmptyDirRefused ==
    /\ last.from = "d" /\ last.key = 100 /\ Called("delete_file")
    /\ SelectedNonEmptyDir
    /\ message = Msg("Directory not empty!", <<>>, 0) /\ color = "error"

\* what the tree at p holds: relative paths with kinds and contents
Content(f, p) ==
    {<<SubSeq(q, Len(p) + 1, Len(q)), f[q].kind, f[q].data>> : q \in Subtree(f, p)}

\* a pp completed on a clipboard that holds a path
PasteStep == pending = "p" /\ last'.key = 112 /\ clipboard # <<>>

\* C8 (as stated, for a copy whose paste reports success): a paste after
\* copy creates, in the current directory under the source's base name, a
\* destination with content identical to the source's.
C8_ReportedCopyIsIdentical ==
    [][PasteStep /\ ~clipboard_is_cut /\ Len(last'.fails) = 0
         => LET src == Norm(clipboard[1])
                dst == Append(current_path, Basename(src))
            IN  Exists(fs', dst) /\ Content(fs', dst) = Content(fs, src)]_vars

\* the four chord leaders and the key that completes each
Leaders == {"g", "d", "y", "p"}
LeaderKey(pd) == IF pd = "g" THEN 103 ELSE IF pd = "d" THEN 100
                 ELSE IF pd = "y" THEN 121 ELSE 112

\* C9: after a chord leader (d, g, y, p) a second key that does not complete
\* the chord is consumed and nothing is executed: every field of the
\* application keeps its value and the mode remains Normal.
C9_BrokenChordDoesNothing ==
    [][last'.key # LeaderKey(pending) /\ pending \in Leaders
         => /\ UNCHANGED <<fs, current_path, files, selected_idx, top_idx,
                           command_mode, command, message, color, show_hidden,
                           clipboard, clipboard_is_cut, lines, run>>
            /\ ~command_mode' /\ pending' = "none"
            /\ Len(last'.calls) = 0]_vars

C9_ChordBroken ==
    /\ last.from \in Leaders /\ last.key # LeaderKey(last.from)
    /\ pending = "none" /\ run = "running"

\* C10: a pp completed on an empty clipboard sets the error-severity message
\* "Clipboard is empty" and changes nothing else.
C10_EmptyPasteOnlyReports ==
    [][pending = "p" /\ last'.key = 112 /\ clipboard = <<>>
         => /\ message' = Msg("Clipboard is empty", <<>>, 0) /\ color' = "error"
            /\ UNCHANGED <<fs, current_path, files, selected_idx, top_idx,
                           command_mode, command, show_hidden,
                           clipboard, clipboard_is_cut, lines, run>>
            /\ pending' = "none"]_vars

C10_EmptyPasteReported ==
    /\ last.from = "p" /\ last.key = 112 /\ Called("paste_files")
    /\ clipboard = <<>> /\ ~Called("paste_one")
    /\ message = Msg("Clipboard is empty", <<>>, 0)

\* the event handled next is a yy or a call of cut_file on a selected entry
TakesEntry ==
    /\ \/ pending = "y" /\ last'.key = 121
       \/ pending = "none" /\ ~command_mode /\ last'.key = -1
    /\ selected_idx < Len(files) /\ PyIndexOk(files, selected_idx)

\* C11: the clipboard never holds more than one path; a copy or cut makes it
\* hold exactly the selected entry's full path, whatever it held before; a
\* paste on a non-empty clipboard leaves it empty, whether the move or copy
\* succeeded or failed.
C11_ClipboardHoldsAtMostOne ==
    /\ [](Len(clipboard) <= 1)
    /\ [][(TakesEntry => (/\ clipboard' = <<PyAt(files, selected_idx).full_path>>
                           /\ clipboard_is_cut' = (last'.key = -1)))
           /\ (PasteStep => Len(clipboard') = 0)]_vars

C11_FailedPasteEmptied ==
    /\ last.from = "p" /\ last.key = 112 /\ Called("paste_one")
    /\ FailedIn("paste_files:cp")
    /\ clipboard = <<>> /\ color = "error"

\* the command line is a search, and Enter is the event handled next
SearchStep ==
    /\ command_mode /\ pending = "none" /\ last'.key = 10
    /\ \/ StartsWith(command, <<47>>)
       \/ /\ Len(Tokens(command, {32})) >= 2
          /\ Tokens(command, {32})[1] = <<115, 115>>

SearchPattern ==
    IF StartsWith(command, <<47>>) THEN Tail(command)
    ELSE JoinSpace(Tail(Tokens(command, {32})))

\* the indices of the entries whose name holds the pattern, case ignored
Hits ==
    {i \in 0..(Len(files) - 1) :
        Contains(LowerStr(files[i + 1].name), LowerStr(SearchPattern))}

\* C12: a search with at least one match selects the first match, sets
\* top_idx to max(0, selected_idx - 2) and reports "Found N matches" with
\* N = min(5, number of matching entries); a search without a match leaves
\* selected_idx and top_idx as they were and reports "No matches found".
C12_SearchSelectsFirstMatch ==
    [][SearchStep =>
         IF Hits # {}
         THEN LET first == CHOOSE i \in Hits : \A j \in Hits : i <= j IN
              /\ selected_idx' = first
              /\ top_idx' = (IF first - 2 > 0 THEN first - 2 ELSE 0)
              /\ message' = Msg("Found matches", <<>>,
                                IF Cardinality(Hits) < 5 THEN Cardinality(Hits) ELSE 5)
         ELSE /\ selected_idx' = selected_idx /\ top_idx' = top_idx
              /\ message' = Msg("No matches found", <<>>, 0)]_vars

C12_FoundMoreThanFive ==
    /\ last.key = 10 /\ Called("search_file")
    /\ message = Msg("Found matches", <<>>, 5)
    /\ Cardinality({i \in 1..Len(files) : Contains(LowerStr(files[i].name), <<97>>)}) > 5
    /\ selected_idx = 1 /\ top_idx = 0

\* the tokens of a list separated by single spaces
RECURSIVE Rejoined(_)
Rejoined(ts) ==
    IF Len(ts) = 0 THEN <<>>
    ELSE IF Len(ts) = 1 THEN ts[1]
    ELSE ts[1] \o <<32>> \o Rejoined(Tail(ts))

\* the command line is cmd followed by at least one token, and Enter is the
\* event handled next
CommandStep(cmd) ==
    /\ command_mode /\ pending = "none" /\ last'.key = 10
    /\ ~StartsWith(command, <<47>>)
    /\ Len(Tokens(command, {32})) >= 2
    /\ Tokens(command, {32})[1] = cmd

\* the name the command line gives: its tokens after the first, rejoined
GivenName == Rejoined(Tail(Tokens(command, {32})))

\* the filesystem gained exactly the empty directory p
CreatedOnly(p) ==
    /\ ~Exists(fs, p)
    /\ DOMAIN fs' = DOMAIN fs \cup {p}
    /\ fs'[p].kind = "dir"
    /\ \A q \in DOMAIN fs : fs'[q] = fs[q]

\* the selected entry is now found under the name nm in the current
\* directory
RenamedTo(nm) ==
    LET old == Norm(PyAt(files, selected_idx).full_path)
        new == Append(current_path, nm)
    IN  /\ Exists(fs', new) /\ Content(fs', new) = Content(fs, old)
        /\ new # old => ~Exists(fs', old)

RenStep ==
    /\ CommandStep(<<114, 101, 110>>)
    /\ selected_idx < Len(files) /\ PyIndexOk(files, selected_idx)
    /\ PyAt(files, selected_idx).name # DotDot

\* C13 (as stated, for the commands that report no failure): mkdir creates
\* exactly one directory, in the current directory, named by the tokens
\* rejoined with single spaces; ren gives the selected entry the name
\* rejoined in the same way.
C13_MkdirCreatesOneDirectory ==
    [][/\ CommandStep(<<109, 107, 100, 105, 114>>) /\ Len(last'.fails) = 0
          => CreatedOnly(Append(current_path, GivenName))
       /\ RenStep /\ Len(last'.fails) = 0 => RenamedTo(GivenName)]_vars

\* C13 (amended): the same, for a rejoined name that holds no `/`.
C13_MkdirCreatesOneNamedDirectory ==
    [][/\ CommandStep(<<109, 107, 100, 105, 114>>) /\ Len(last'.fails) = 0
          /\ 47 \notin {GivenName[i] : i \in 1..Len(GivenName)}
          => CreatedOnly(Append(current_path, GivenName))
       /\ RenStep /\ Len(last'.fails) = 0
          /\ 47 \notin {GivenName[i] : i \in 1..Len(GivenName)}
          => RenamedTo(GivenName)]_vars

C13_CreatedNameWithSpace ==
    /\ last.key = 10 /\ Called("create_directory") /\ Len(last.fails) = 0
    /\ IsDirNode(fs, << <<119>>, <<110, 32, 102>> >>)
    /\ ~Exists(fs, << <<119>>, <<110>> >>) /\ ~Exists(fs, << <<119>>, <<102>> >>)
    /\ message = Msg("Directory created: ", <<110, 32, 102>>, 0)

\* how often the event handled last called name
TimesCalled(name) == Cardinality({i \in 1..Len(last.calls) : last.calls[i] = name})

\* C14: in command mode Enter runs execute_command once on the buffer and,
\* unless the command was quit, leaves normal mode and an empty buffer,
\* whether the command succeeded, failed or was unknown; Escape leaves
\* normal mode and an empty buffer and runs nothing.  So the buffer is empty
\* in every state in normal mode.
C14_CommandModeAlwaysLeft ==
    /\ [](~command_mode => command = <<>>)
    /\ [][/\ command_mode /\ pending = "none" /\ last'.key = 10
             => /\ TimesCalled("execute_command")' = 1
                /\ run' = "running" => ~command_mode' /\ Len(command') = 0
                /\ run' # "running" => QuitExecuted'
          /\ command_mode /\ pending = "none" /\ last'.key = 27
             => /\ ~command_mode' /\ Len(command') = 0 /\ Len(last'.calls) = 0
                /\ UNCHANGED <<fs, current_path, files, selected_idx, top_idx,
                               message, color, show_hidden, clipboard, run>>]_vars

C14_LeftAfterFailedCommand ==
    /\ last.key = 10 /\ TimesCalled("execute_command") = 1
    /\ Len(last.fails) > 0
    /\ run = "running" /\ ~command_mode /\ command = <<>>

\* C15: in normal mode `:` opens an empty command line, q extends it to
\* "q", and Enter on the command q ends the loop of main by its break
\* (exit status 0), never by exit(1); after the loop has ended no event is
\* handled.
C15_QuitEndsNormally ==
    [][/\ (run = "running" /\ ~command_mode /\ pending = "none" /\ last'.key = 58
             => run' = "running" /\ command_mode' /\ Len(command') = 0
                /\ pending' = "none")
       /\ (run = "running" /\ command_mode /\ pending = "none" /\ last'.key = 113
             => run' = "running" /\ command_mode' /\ command' = Append(command, 113)
                /\ pending' = "none")
       /\ (run = "running" /\ command_mode /\ pending = "none" /\ last'.key = 10
           /\ command = <<113>>
             => run' = "exit0")
       /\ run = "running"]_vars

C15_QuitFromInvalidSelection ==
    /\ run = "exit0" /\ last.key = 10 /\ command = <<113>>
    /\ selected_idx >= Len(files)

\* C16 (as stated): an event in which a filesystem or opener call failed ends
\* with an error-severity message, and the session goes on.
C16_FailuresEndAsErrorMessage ==
    [][Len(last'.fails) > 0 => run' = "running" /\ color' = "error"]_vars

\* the mouse event read next is a plain left click
LeftClick(ev) == last'.key = KEY_MOUSE /\ ev = last'.ev /\ ev.bstate = {"BUTTON1_CLICKED"}

\* (x, y) is on a row of the listing on which draw_interface draws an entry
OnEntryRow(ev) ==
    /\ 1 <= ev.x /\ ev.x < PanelWidth
    /\ 1 <= ev.y /\ ev.y <= lines - 5
    /\ top_idx + (ev.y - 1) < Len(files)

\* C17 (as stated): a left click on the row of an entry selects the entry
\* drawn on that row, top_idx + row - 1, and leaves top_idx; a left click
\* anywhere else leaves every field as it was.
C17_ClickSelectsOnlyInListing ==
    [][\A ev \in MouseEvents : LeftClick(ev) /\ pending = "none" =>
          IF OnEntryRow(ev)
          THEN selected_idx' = top_idx + (ev.y - 1) /\ top_idx' = top_idx
          ELSE UNCHANGED <<fs, current_path, files, selected_idx, top_idx,
                           command_mode, command, message, color, show_hidden,
                           clipboard, clipboard_is_cut, lines, pending, run>>]_vars

\* the selected entry is the synthetic `..`
OnDotDot ==
    /\ selected_idx < Len(files) /\ PyIndexOk(files, selected_idx)
    /\ PyAt(files, selected_idx).name = DotDot

\* C18: a dd and a ren command while `..` is selected are refused: no call
\* on the filesystem is made (nothing fails, nothing is reported) and the
\* filesystem, current_path, the listing, selected_idx and the clipboard
\* stay as they were.
C18_DotDotIsRefused ==
    [][/\ OnDotDot
       /\ \/ pending = "d" /\ last'.key = 100
          \/ CommandStep(<<114, 101, 110>>)
       => /\ UNCHANGED <<fs, current_path, files, selected_idx, top_idx,
                         clipboard, clipboard_is_cut, message, color, run>>
          /\ Len(last'.fails) = 0]_vars

C18_RenameOnDotDotRefused ==
    /\ last.key = 10 /\ Called("rename_file") /\ OnDotDot
    /\ Exists(fs, << <<119>>, <<97>> >>) /\ ~Exists(fs, << <<119>>, <<120>> >>)
    /\ ~command_mode

\* the directory the path of a p command names: a relative path is taken
\* from the directory the program was started in
GivenPath == Norm(JoinStr(StartDir, GivenName))

\* the names a listing of directory p shows
Visible(p) ==
    {Basename(q) : q \in {c \in Children(fs, p) :
        fs[c].kind # "dangling" /\ (show_hidden \/ ~StartsWith(Basename(c), <<46>>))}}

\* C19: `p <path>` with a path that is not an existing directory sets the
\* error message "Invalid path" and leaves current_path, the listing,
\* selected_idx and top_idx; with an existing directory it does what
\* navigate_to(path) does: current_path is the directory, selected_idx and
\* top_idx are 0, the listing is the directory's.
C19_ChangePathChecksDirectory ==
    [][CommandStep(<<112>>) =>
         IF IsDirNode(fs, GivenPath)
         THEN /\ current_path' = GivenPath
              /\ selected_idx' = 0 /\ top_idx' = 0
              /\ TimesCalled("navigate_to")' = 1
              /\ {files'[i].name : i \in 1..Len(files')} \ {DotDot} = Visible(GivenPath)
         ELSE /\ message' = Msg("Invalid path", <<>>, 0) /\ color' = "error"
              /\ UNCHANGED <<fs, current_path, files, selected_idx, top_idx>>]_vars

C19_InvalidPathRejected ==
    /\ last.key = 10 /\ Called("execute_command") /\ ~Called("navigate_to")
    /\ message = Msg("Invalid path", <<>>, 0) /\ color = "error"
    /\ current_path # StartDir /\ selected_idx > 0

\* C20: whenever the terminal is smaller than the minimum footprint, at
\* startup or after a resize during the session, the program has exited with
\* status 1.
C20_SmallTerminalExits ==
    lines < MinHeight \/ TermCols < MinWidth => run = "exit1"

\* the terminal was shrunk below the minimum during a session and the
\* program is still reading keys
C20_RunningOnSmallTerminal ==
    /\ lines < MinHeight /\ run = "running"
    /\ last.key = KEY_RESIZE

\* the step handles j, k, KEY_DOWN or KEY_UP read in normal mode
MoveStep ==
    /\ ~command_mode /\ pending = "none"
    /\ last'.key \in {106, 107, KEY_DOWN, KEY_UP}

\* the selection is on one of the lines - 5 rows drawn from top_idx
InWindow ==
    top_idx <= selected_idx /\ selected_idx <= top_idx + (lines - 5) - 1

\* what a one-step move does to top_idx: it moves by at most 1, only when the
\* new selection is outside the old window, and the new window holds it
WindowFollows ==
    /\ top_idx' - top_idx \in {-1, 0, 1}
    /\ (top_idx' # top_idx =>
          selected_idx' < top_idx \/ selected_idx' > top_idx + (lines - 5) - 1)
    /\ InWindow'

\* C21 (as claimed): a one-step move started with the selection inside the
\* drawn window ends with selected_idx in 0 .. len(files) - 1, moves top_idx
\* by at most 1 and only when the selection would leave the window, and ends
\* with the selection inside the window.
C21_MoveKeepsSelectionInListing ==
    [][MoveStep /\ InWindow =>
         /\ 0 <= selected_idx' /\ selected_idx' <= Len(files') - 1
         /\ WindowFollows]_vars

\* the same for a move started from a valid index of the listing
C21_MoveFromValidIndex ==
    [][MoveStep /\ InWindow /\ 0 <= selected_idx /\ selected_idx <= Len(files) - 1 =>
         /\ 0 <= selected_idx' /\ selected_idx' <= Len(files') - 1
         /\ WindowFollows]_vars

\* the window part alone, from any selection inside the window
C21_WindowFollowsMove ==
    [][MoveStep /\ InWindow => WindowFollows]_vars

\* the step completes the chord gg
JumpTopStep == pending = "g" /\ last'.key = 103

\* the step handles G read in normal mode
JumpBottomStep == ~command_mode /\ pending = "none" /\ last'.key = 71

\* C22 (as claimed): gg ends with selected_idx = 0 and top_idx = 0; G ends
\* with selected_idx on the last index of the listing and that entry inside
\* the drawn window, for every listing, the empty one included.
C22_JumpsLandInsideWindow ==
    [][/\ (JumpTopStep => selected_idx' = 0 /\ top_idx' = 0)
       /\ (JumpBottomStep =>
             /\ selected_idx' = Len(files') - 1
             /\ 0 <= top_idx' /\ InWindow')]_vars

\* the same for G on a listing that has an entry
C22_JumpsOnNonEmptyListing ==
    [][/\ (JumpTopStep => selected_idx' = 0 /\ top_idx' = 0)
       /\ (JumpBottomStep /\ Len(files) > 0 =>
             /\ selected_idx' = Len(files') - 1
             /\ 0 <= top_idx' /\ InWindow')]_vars

\* the step handles l or Enter read in normal mode with an entry selected
EnterStep ==
    /\ ~command_mode /\ pending = "none"
    /\ last'.key \in {108, 10}
    /\ 0 <= selected_idx /\ selected_idx < Len(files)

\* the step ends in the state the snapshot T holds
EndsAs(T) ==
    /\ fs' = T.fs /\ current_path' = T.current_path /\ files' = T.files
    /\ selected_idx' = T.selected_idx /\ top_idx' = T.top_idx
    /\ command_mode' = T.command_mode /\ command' = T.command
    /\ message' = T.message /\ color' = T.color
    /\ show_hidden' = T.show_hidden
    /\ clipboard' = T.clipboard /\ clipboard_is_cut' = T.clipboard_is_cut
    /\ run' = T.run

\* C23: l or Enter on a directory ends in the state of
\* navigate_to(entry.full_path): current_path is the directory's absolute
\* path, selected_idx = top_idx = 0, the listing rebuilt; on `..` that is the
\* state the key h ends in.  On any other entry the opener is called once, on
\* the entry's path, and current_path, the listing, selected_idx and the
\* clipboard stay.
C23_EnterNavigatesOrOpens ==
    [][EnterStep =>
         LET file == PyAt(files, selected_idx) IN
         IF file.is_dir
         THEN /\ \E E \in Envs : EndsAs(navigate_to(Cur, file.full_path, E))
              /\ current_path' = Norm(file.full_path)
              /\ selected_idx' = 0 /\ top_idx' = 0
              /\ Len(last'.opened) = 0
              /\ (file.name = DotDot =>
                    \E E \in Envs : EndsAs(normal_key(Cur, 104, E)))
         ELSE /\ last'.opened = <<file.full_path>>
              /\ UNCHANGED <<fs, current_path, files, selected_idx,
                             clipboard, clipboard_is_cut>>]_vars

\* a file was handed to the opener in a directory entered before
C23_FileOpenedAfterEntering ==
    /\ last.key \in {108, 10} /\ Len(last.opened) = 1
    /\ current_path # StartDir /\ selected_idx > 0
    /\ ~PyAt(files, selected_idx).is_dir

\* the entry `..` was entered from a directory below the start directory
C23_ParentEntered ==
    /\ last.key \in {108, 10} /\ Called("navigate_to")
    /\ current_path = StartDir /\ Len(last.opened) = 0

\* the mouse event read next carries the double-click flag of button 1
DoubleClick(ev) ==
    /\ last'.key = KEY_MOUSE /\ ev = last'.ev
    /\ "BUTTON1_DOUBLE_CLICKED" \in ev.bstate

\* the click selects the entry of its row and opens it
SelectsAndOpens(ev) ==
    LET idx == top_idx + (ev.y - 1)
        file == PyAt(files, idx)
    IN
    IF file.is_dir
    THEN \E E \in Envs :
           EndsAs(navigate_to([Cur EXCEPT !.selected_idx = idx], file.full_path, E))
    ELSE /\ selected_idx' = idx
         /\ last'.opened = <<file.full_path>>

\* C24 (as claimed): every double-click of button 1 on the row of an entry,
\* also one whose button state is the double-click flag alone, selects the
\* entry and opens it.
C24_DoubleClickOpens ==
    [][\A ev \in MouseEvents :
          DoubleClick(ev) /\ pending = "none" /\ OnEntryRow(ev) => SelectsAndOpens(ev)]_vars

\* the same for the events that carry the click flag beside the double-click
\* flag
C24_DoubleClickWithClickFlagOpens ==
    [][\A ev \in MouseEvents :
          DoubleClick(ev) /\ "BUTTON1_CLICKED" \in ev.bstate
          /\ pending = "none" /\ OnEntryRow(ev) => SelectsAndOpens(ev)]_vars

\* the mouse event read next is a click of button 3
RightClick(ev) ==
    /\ last'.key = KEY_MOUSE /\ ev = last'.ev
    /\ ev.bstate = {"BUTTON3_CLICKED"}

\* C25 (as claimed): a right click on the row of an entry sets an
\* informational message naming the entry of that row and changes nothing
\* else.
C25_RightClickNamesEntryUnderCursor ==
    [][\A ev \in MouseEvents :
          RightClick(ev) /\ pending = "none" /\ OnEntryRow(ev) =>
            /\ message' = Msg("Right click on: ", PyAt(files, top_idx + (ev.y - 1)).name, 0)
            /\ color' = "info"
            /\ UNCHANGED <<fs, current_path, files, selected_idx, top_idx,
                           command_mode, command, show_hidden,
                           clipboard, clipboard_is_cut, lines, pending, run>>]_vars

\* what a right click does: it names the selected entry, unless that is `..`
\* or no entry, and changes nothing else
C25_RightClickNamesSelectedEntry ==
    [][\A ev \in MouseEvents :
          RightClick(ev) /\ pending = "none" /\ OnEntryRow(ev) =>
            /\ IF 0 <= selected_idx /\ selected_idx < Len(files)
                   /\ PyAt(files, selected_idx).name # DotDot
                THEN /\ message' = Msg("Right click on: ", PyAt(files, selected_idx).name, 0)
                     /\ color' = "info"
                ELSE UNCHANGED <<message, color>>
            /\ UNCHANGED <<fs, current_path, files, selected_idx, top_idx,
                           command_mode, command, show_hidden,
                           clipboard, clipboard_is_cut, lines, pending, run>>]_vars

\* the name given to ren is the name of another entry of the current
\* directory
NameTaken ==
    /\ Exists(fs, Append(current_path, GivenName))
    /\ Append(current_path, GivenName) # Norm(PyAt(files, selected_idx).full_path)

\* the listing shows an entry of the given name
Listed(fl, nm) == \E i \in 1..Len(fl) : fl[i].name = nm

\* C26 (as claimed): ren on an entry other than `..`: when the name is taken
\* by another entry of the current directory, or the OS refuses, an error
\* message is set and the filesystem and the listing are unchanged;
\* otherwise the entry is found under the new name in the current directory,
\* the old name is gone and the listing is rebuilt.
C26_RenameNeverOverwrites ==
    [][RenStep =>
         IF NameTaken \/ FailedIn("rename_file:rename")'
         THEN color' = "error" /\ UNCHANGED <<fs, files>>
         ELSE /\ RenamedTo(GivenName)
              /\ Called("refresh_files")' /\ Listed(files', GivenName)]_vars

\* the same for a name no other entry of the current directory has
C26_RenameToFreeName ==
    [][RenStep /\ ~NameTaken =>
         IF FailedIn("rename_file:rename")'
         THEN color' = "error" /\ UNCHANGED <<fs, files>>
         ELSE /\ RenamedTo(GivenName)
              /\ Called("refresh_files")' /\ Listed(files', GivenName)]_vars

\* the command line is hdn and Enter is the event handled next
HdnStep ==
    /\ command_mode /\ pending = "none" /\ last'.key = 10
    /\ ~StartsWith(command, <<47>>)
    /\ Tokens(command, {32}) # <<>>
    /\ Tokens(command, {32})[1] = <<104, 100, 110>>

\* the snapshot after the command hdn is entered in S, os.listdir answering
\* in the order E gives
AfterHdn(S, E) ==
    main_loop(handle_input([S EXCEPT !.command_mode = TRUE,
                                     !.command = <<104, 100, 110>>], 10, E))

\* two hdn commands in a row, the filesystem and the order of os.listdir
\* unchanged, give back show_hidden and the listing
HdnTwiceRestores ==
    \A E \in ListEnvs :
        files = refresh_files(Cur, E).files =>
            LET T == AfterHdn(AfterHdn(Cur, E), E) IN
            /\ T.show_hidden = show_hidden
            /\ T.files = files
            /\ T.fs = fs

C28_InputNeverCuts ==
    /\ [](~clipboard_is_cut)
    /\ [][PasteStep =>
            /\ Called("paste_one")' /\ ~FailedIn("paste_files:rename")'
            /\ \A q \in Subtree(fs, Norm(clipboard[1])) :
                  Exists(fs', q) /\ fs'[q] = fs[q]]_vars

\* a file copied with yy was pasted into another directory
C28_CopyPastedElsewhere ==
    /\ last.from = "p" /\ last.key = 112 /\ Called("paste_one")
    /\ Len(last.fails) = 0
    /\ Exists(fs, << <<119>>, <<97>> >>)
    /\ Exists(fs, << <<119>>, <<116>>, <<97>> >>)

\* the step completes the chord yy or the chord pp
CopyOrPasteStep ==
    \/ pending = "y" /\ last'.key = 121
    \/ pending = "p" /\ last'.key = 112

\* C29: only copy, cut and paste change the clipboard: every other key,
\* chord, command line and mouse event leaves the clipboard's path and its
\* is_cut flag, so what was copied in one directory can be pasted in another.
C29_OnlyCopyAndPasteTouchClipboard ==
    [][~CopyOrPasteStep => UNCHANGED <<clipboard, clipboard_is_cut>>]_vars

\* a file copied in the start directory was pasted in the root, reached with
\* the command p
C29_PastedAfterChangingPath ==
    /\ last.from = "p" /\ last.key = 112 /\ Called("paste_one")
    /\ Len(last.fails) = 0 /\ current_path = Root
    /\ Exists(fs, << <<97>> >>) /\ Exists(fs, << <<119>>, <<97>> >>)
    /\ message = Msg("Copied: ", <<97>>, 0)

============================================================================
